---- MODULE Spec2Model ----
(***************************************************************************)
(* A model of the chat relay of radiogaga (src/chat.go, lines 1-297):      *)
(* the websocket handler HandleWS, the per-connection read loop            *)
(* handleClient, the keepalive ping goroutine, the dispatcher and the two  *)
(* forwarding routines, with the registry mutex and every connection's     *)
(* write lock as explicit locks.                                           *)
(*                                                                         *)
(* Strings are sequences of one-character strings, so that TrimSpace and   *)
(* strconv.Itoa are computed and not assumed.  Connections are numbered in *)
(* their order of arrival.  Each connection c has a handler task H(c)      *)
(* (HandleWS, then handleClient) and a keepalive task P(c).                *)
(*                                                                         *)
(* Spec and SpecLoop are for the properties of every state and every step. *)
(* SpecLive is for the properties that say what happens in the end: it     *)
(* tells the reasons of a failed read apart, lets the cleanup wait for the *)
(* registry mutex, and states which steps are taken in the end.            *)
(***************************************************************************)
EXTENDS Integers, Sequences, FiniteSets, TLC

\* ------------------------------------------------------------------ bounds
\* Upgrade requests the server receives (connections are numbered 1..NConn).
NConn == 3
\* Frames read over all connections, not counting the handshake frames whose
\* target and content are blank.
MaxFrames == 1
\* Keepalive ticks over all connections.
MaxPings == 1
\* Writes that fail on a transport the server has not closed.
MaxFail == 1
\* Tasks that are under way at once: handlers that are not blocked in the read
\* of their connection, keepalive tasks that are not waiting for their ticker.
MaxActive == 2
\* Upgrade requests of a run in which no admission key is configured.
NConnNoKey == 1
\* Upgrade requests, and frames read, of a run of SpecLoop.
NConnLoop == 2
MaxFramesLoop == 2
\* Upgrade requests, frames read, keepalive ticks on an open transport and
\* failing writes of a run of SpecLive.
NConnLive == 2
MaxFramesLive == 1
MaxPingsLive == 1
MaxFailLive == 1

\* --------------------------------------------------------- program constants
\* jwt.WithLeeway(15*time.Second)
Leeway == 15
\* close code of a superseded session
CodeSuperseded == 4100
\* close code of a rejected radio admission key
CodeBadRadioKey == 4103

Conns == 1..NConn

\* ------------------------------------------------------------------ strings
Digit == <<"0", "1", "2", "3", "4", "5", "6", "7", "8", "9">>

RECURSIVE ItoaNat(_)
ItoaNat(n) == IF n < 10 THEN <<Digit[n + 1]>>
              ELSE ItoaNat(n \div 10) \o <<Digit[(n % 10) + 1]>>

\* strconv.Itoa
Itoa(n) == IF n < 0 THEN <<"-">> \o ItoaNat(0 - n) ELSE ItoaNat(n)

IsSpace(ch) == ch \in {" ", "\t", "\n", "\r"}

RECURSIVE TrimLeft(_)
TrimLeft(s) == IF s # <<>> /\ IsSpace(Head(s)) THEN TrimLeft(Tail(s)) ELSE s

RECURSIVE TrimRight(_)
TrimRight(s) == IF s # <<>> /\ IsSpace(s[Len(s)])
                THEN TrimRight(SubSeq(s, 1, Len(s) - 1)) ELSE s

\* strings.TrimSpace
TrimSpace(s) == TrimRight(TrimLeft(s))

\* ------------------------------------------------------------------- tokens
\* A token string: empty, not a JWT at all, or a JWT with its header
\* algorithm, whether its signature verifies under GEWISSecret, its exp claim
\* (seconds relative to the time of verification) and the GEWIS claims.
Jwt(lid, given, family, alg, sig, hasExp, exp) ==
    [raw |-> "jwt", alg |-> alg, sig |-> sig, hasExp |-> hasExp, exp |-> exp,
     lidnr |-> lid, given |-> given, family |-> family]

NotJwt(raw) ==
    [raw |-> raw, alg |-> "", sig |-> "", hasExp |-> FALSE, exp |-> 0,
     lidnr |-> 0, given |-> "", family |-> ""]

TokAlice == Jwt(1, "Alice", "User", "HS512", "good", TRUE, 60)
TokBob == Jwt(2, "Bob", "Radio", "HS512", "good", TRUE, 60)
TokSkew == Jwt(1, "Alice", "User", "HS512", "good", TRUE, 0 - 10)
TokExpired == Jwt(1, "Alice", "User", "HS512", "good", TRUE, 0 - 60)
TokNoExp == Jwt(1, "Alice", "User", "HS512", "good", FALSE, 0)
TokForged == Jwt(1, "Alice", "User", "HS512", "bad", TRUE, 60)
TokAlg == Jwt(1, "Alice", "User", "HS256", "good", TRUE, 60)
TokEmpty == NotJwt("empty")
TokGarbage == NotJwt("garbage")

Tokens == {TokAlice, TokBob, TokSkew, TokExpired, TokNoExp, TokForged,
           TokAlg, TokEmpty, TokGarbage}

\* The tokens a request of a role sends in its handshake: member 1 is a
\* listener, who does not ask for the radio role with her own token.
HandshakeTokens(r) ==
    IF r = "radio" THEN Tokens \ {TokAlice, TokSkew} ELSE Tokens

\* verifyGEWISToken: the error result is FALSE, the claims are the token's.
verifyGEWISToken(tok) ==
    /\ tok.raw # "empty"
    /\ tok.raw = "jwt"
    /\ tok.alg = "HS512"
    /\ tok.sig = "good"
    /\ tok.hasExp
    /\ tok.exp + Leeway >= 0

\* -------------------------------------------------------------- wire frames
GoodKey == <<"k">>
BadKey == <<"x">>
KeyValues == {<<>>, GoodKey, BadKey}

ToValues == {<<>>, Itoa(1)}
ContentValues == {<<>>, <<" ">>, <<"h", "i">>}

\* IncomingMessage: the fields of a frame that decodes.
IncomingMessage ==
    [token : Tokens, to : ToValues, content : ContentValues,
     radioKey : KeyValues]

\* GEWISClaims: what verifyGEWISToken returns for a token it accepts.
GEWISClaims(tok) ==
    [lidnr |-> tok.lidnr, given |-> tok.given, family |-> tok.family]

NoClaims == [lidnr |-> 0, given |-> "", family |-> ""]

\* What a handler holds of a frame it decoded and verified: the claims of the
\* frame's token, in.To and in.Content.
Verified(claims, to, content) ==
    [claims |-> claims, to |-> to, content |-> content]

NoFrame == Verified(NoClaims, <<>>, <<>>)

NoMessage == [from |-> <<>>, given |-> "", family |-> "", to |-> <<>>,
              content |-> <<>>]

\* OutgoingMessage as dispatch builds it, from the claims of the frame's
\* token and the frame's to and content.
OutgoingMessage(v) ==
    [from |-> Itoa(v.claims.lidnr), given |-> v.claims.given,
     family |-> v.claims.family, to |-> v.to, content |-> v.content]

\* The frames of the read loop, which reads neither radioKey nor whether the
\* content is blank.
SteadyFrames ==
    {f \in IncomingMessage : f.radioKey = <<>> /\ f.content = <<"h", "i">>}

\* -------------------------------------------------------------------- tasks
Free == 0
H(c) == c
P(c) == NConn + c

--------------------------------------------------------------------------
VARIABLES
    radioChatKey, \* RADIOChatKey, the configured admission key
    lim,          \* the bounds of the run, which no step changes
    nconn,        \* upgrade requests received so far
    pc,           \* pc[c]: where the handler task H(c) stands
    ping,         \* ping[c]: where the keepalive task P(c) stands
    role,         \* role[c]: the role query parameter of connection c
    id,           \* id[c]: client.id
    hs,           \* hs[c]: whether the token of c's handshake frame was
                  \* verified, the admission key the frame of a radio
                  \* carried, and the claims the Client was made with
    in,           \* in[c]: the frame H(c) is dispatching
    mutex,        \* c.mutex: Free or the task that holds it
    writeMu,      \* writeMu[c]: Free or the task that holds client.writeMu
    users,        \* c.users: a function from identity strings to connections
    radios,       \* c.radios: a set of connections
    prev,         \* prev[c]: the session H(c) found under its identity
    conns,        \* conns[c]: what is left of the slice H(c) iterates over
    target,       \* target[c]: the connection H(c) writes a message to
    mid,          \* mid[c]: number of the dispatch H(c) is in (0: none)
    disp,         \* disp[c]: the frames H(c) dispatched or skipped, in
                  \* their order
    wire,         \* wire[c]: what was written to the transport of c
    closes,       \* closes[c]: the tasks that called Close on c's transport
    replacedBy,   \* replacedBy[c]: the connection that overwrote c's entry
    deadline,     \* deadline[c]: the read deadline of c's transport
    nframes, npings, nfail

vars == <<radioChatKey, lim, nconn, pc, ping, role, id, hs, in, mutex, writeMu,
          users, radios, prev, conns, target, mid, disp, wire, closes,
          replacedBy, deadline, nframes, npings, nfail>>

NoHandshake == [claims |-> NoClaims, verified |-> FALSE, radioKey |-> <<>>]

\* NewChat, and no request received yet, in a run of bounds b with the
\* admission key configured to key.
InitWith(b, key) ==
    /\ lim = b
    /\ radioChatKey = key
    /\ nconn = 0
    /\ pc = [c \in Conns |-> "idle"]
    /\ ping = [c \in Conns |-> "unstarted"]
    /\ role = [c \in Conns |-> ""]
    /\ id = [c \in Conns |-> <<>>]
    /\ hs = [c \in Conns |-> NoHandshake]
    /\ in = [c \in Conns |-> NoFrame]
    /\ mutex = Free
    /\ writeMu = [c \in Conns |-> Free]
    /\ users = <<>>
    /\ radios = {}
    /\ prev = [c \in Conns |-> 0]
    /\ conns = [c \in Conns |-> {}]
    /\ target = [c \in Conns |-> 0]
    /\ mid = [c \in Conns |-> 0]
    /\ disp = [c \in Conns |-> <<>>]
    /\ wire = [c \in Conns |-> <<>>]
    /\ closes = [c \in Conns |-> <<>>]
    /\ replacedBy = [c \in Conns |-> 0]
    /\ deadline = [c \in Conns |-> "unset"]
    /\ nframes = 0
    /\ npings = 0
    /\ nfail = 0

Bounds == [conns |-> NConn, frames |-> MaxFrames, pings |-> MaxPings,
           fail |-> MaxFail, active |-> MaxActive]

Init ==
    \/ InitWith(Bounds, GoodKey)
    \/ InitWith([Bounds EXCEPT !.conns = NConnNoKey], <<>>)

\* ------------------------------------------------------------ the transport
Closed(c) == closes[c] # <<>>

\* What a write to the transport of c may return: an error once the server
\* has closed it, otherwise success or a network error.
WriteResults(c) ==
    IF Closed(c) THEN {FALSE}
    ELSE IF nfail < lim.fail THEN {TRUE, FALSE} ELSE {TRUE}

\* What the write of a close frame returns.  Its error is discarded and the
\* transport is closed next, so a network error is left out.
CloseResults(c) == {~Closed(c)}

Failures(c, ok) == IF ~ok /\ ~Closed(c) THEN nfail + 1 ELSE nfail

MsgWrite(t, m, msg, ok) ==
    [kind |-> "msg", code |-> 0, mid |-> m, msg |-> msg, by |-> t,
     locked |-> (mutex = t), ok |-> ok]

ControlWrite(t, kind, code, ok) ==
    [kind |-> kind, code |-> code, mid |-> 0, msg |-> NoMessage, by |-> t,
     locked |-> (mutex = t), ok |-> ok]

\* ---------------------------------------------------------------- scheduling
\* Where a handler is before its request, after its return, or blocked in
\* ReadMessage of the read loop.
RestPcs == {"idle", "rejected", "upgrade_failed", "closed", "read", "done"}

NActive ==
    Cardinality({c \in Conns : pc[c] \notin RestPcs})
    + Cardinality({c \in Conns : ping[c] = "p_write"})

\* Another task may get under way.
CanStart == NActive < lim.active

\* The positions whose next step touches nothing another task can see: the
\* handshake of a connection that is not registered yet, the decision to
\* dispatch the handshake frame, the start of the two goroutines.
LocalPcs == {"handshake", "hs_write4103", "hs_close", "hs_dispatch", "spawn"}

\* Such a step commutes with every step of every other task, so it is taken
\* as soon as it is enabled: every behaviour of the program is equivalent to
\* one in which no other task moves in between.
Busy == \E c \in Conns : pc[c] \in LocalPcs

\* A request that ends before registration touches nothing another task can
\* see, so its place among the requests does not matter: it is the last one
\* of the run.
CanReject(c) == c = lim.conns

\* Listener 2 connects when listener 1 has.
CanRegister(c, claims) ==
    (role[c] = "user" /\ claims.lidnr = 2)
        => \E d \in 1..(c - 1) : role[d] = "user" /\ id[d] = Itoa(1)

\* A handler is between c.mutex.Lock() and Unlock() of the registration, or
\* waits for the mutex there.
Registering ==
    \E c \in Conns : pc[c] \in {"reg", "evict_wlock", "evict_write",
                                "evict_close", "reg_insert"}

\* ---------------------------------------------------------------- HandleWS
\* A mutated role check: a request of any role is upgraded.
ConnectAnyRole ==
    /\ ~Busy
    /\ nconn < lim.conns
    /\ \E r \in {"", "foo"} :
          /\ role' = [role EXCEPT ![nconn + 1] = r]
          /\ pc' = [pc EXCEPT ![nconn + 1] = "handshake"]
    /\ nconn' = nconn + 1
    /\ UNCHANGED <<radioChatKey, lim, ping, id, hs, in, mutex, writeMu, users,
                   radios, prev, conns, target, mid, disp, wire, closes,
                   replacedBy, deadline, nframes, npings, nfail>>

\* The request's role is neither user nor radio: HTTP 400, no upgrade.
ConnectBadRole ==
    /\ ~Busy
    /\ nconn < lim.conns
    /\ CanReject(nconn + 1)
    /\ \E r \in {"", "foo"} :
          /\ role' = [role EXCEPT ![nconn + 1] = r]
          /\ pc' = [pc EXCEPT ![nconn + 1] = "rejected"]
    /\ nconn' = nconn + 1
    /\ UNCHANGED <<radioChatKey, lim, ping, id, hs, in, mutex, writeMu, users,
                   radios, prev, conns, target, mid, disp, wire, closes,
                   replacedBy, deadline, nframes, npings, nfail>>

\* upgrader.Upgrade fails.
ConnectUpgradeFails ==
    /\ ~Busy
    /\ nconn < lim.conns
    /\ CanReject(nconn + 1)
    /\ \E r \in {"user", "radio"} :
          /\ role' = [role EXCEPT ![nconn + 1] = r]
          /\ pc' = [pc EXCEPT ![nconn + 1] = "upgrade_failed"]
    /\ nconn' = nconn + 1
    /\ UNCHANGED <<radioChatKey, lim, ping, id, hs, in, mutex, writeMu, users,
                   radios, prev, conns, target, mid, disp, wire, closes,
                   replacedBy, deadline, nframes, npings, nfail>>

\* The upgrade succeeds; the handler blocks in the read of the handshake.
\* What a handler does before it asks for the registry mutex is local to it,
\* so a request is taken up when no other handler is registering.
Connect ==
    /\ ~Busy
    /\ nconn < lim.conns
    /\ CanStart
    /\ ~Registering
    /\ \E r \in {"user", "radio"} :
          /\ role' = [role EXCEPT ![nconn + 1] = r]
          /\ pc' = [pc EXCEPT ![nconn + 1] = "handshake"]
    /\ nconn' = nconn + 1
    /\ UNCHANGED <<radioChatKey, lim, ping, id, hs, in, mutex, writeMu, users,
                   radios, prev, conns, target, mid, disp, wire, closes,
                   replacedBy, deadline, nframes, npings, nfail>>

\* The read of the handshake frame fails.
HandshakeReadErr(c) ==
    /\ pc[c] = "handshake"
    /\ CanReject(c)
    /\ pc' = [pc EXCEPT ![c] = "hs_close"]
    /\ UNCHANGED <<radioChatKey, lim, nconn, ping, role, id, hs, in, mutex,
                   writeMu, users, radios, prev, conns, target, mid, disp,
                   wire, closes, replacedBy, deadline, nframes, npings, nfail>>

\* A mutated admission check: an unconfigured key admits the empty key.
RadioKeyRejectedNoEmptyCheck(key) == key # radioChatKey

\* RADIOChatKey == "" || first.RadioKey != RADIOChatKey
RadioKeyRejected(key) == radioChatKey = <<>> \/ key # radioChatKey

\* A mutated handshake: a frame that does not decode or whose token is
\* rejected goes on as if it had been accepted.
HandshakeNoVerify(c, json, tok, key) ==
    /\ pc[c] = "handshake"
    /\ IF role[c] = "radio" /\ RadioKeyRejected(key)
       THEN /\ pc' = [pc EXCEPT ![c] = "hs_write4103"]
            /\ hs' = [hs EXCEPT ![c] =
                         [claims |-> NoClaims,
                          verified |-> (json /\ verifyGEWISToken(tok)),
                          radioKey |-> key]]
            /\ UNCHANGED <<id, deadline>>
       ELSE /\ pc' = [pc EXCEPT ![c] = "reg"]
            /\ id' = [id EXCEPT ![c] = Itoa(GEWISClaims(tok).lidnr)]
            /\ deadline' = [deadline EXCEPT ![c] = "fresh"]
            /\ hs' = [hs EXCEPT ![c] =
                         [claims |-> GEWISClaims(tok),
                          verified |-> (json /\ verifyGEWISToken(tok)),
                          radioKey |-> IF role[c] = "radio" THEN key
                                       ELSE <<>>]]
    /\ UNCHANGED <<radioChatKey, lim, nconn, ping, role, in, mutex, writeMu,
                   users, radios, prev, conns, target, mid, disp, wire, closes,
                   replacedBy, nframes, npings, nfail>>

\* The handshake frame is read: decoded (json tells whether it decodes), its
\* token verified, and for a radio its admission key compared; then the
\* Client is made and the read deadline of its transport set.  first.To and
\* first.Content are read by HsDispatch.
\* hs[c].verified keeps what the decoder and the verifier returned.
Handshake(c, json, tok, key) ==
    /\ pc[c] = "handshake"
    /\ IF ~json \/ ~verifyGEWISToken(tok)
       THEN /\ CanReject(c)
            /\ pc' = [pc EXCEPT ![c] = "hs_close"]
            /\ UNCHANGED <<id, hs, deadline>>
       ELSE IF role[c] = "radio" /\ RadioKeyRejected(key)
       THEN /\ CanReject(c)
            /\ pc' = [pc EXCEPT ![c] = "hs_write4103"]
            /\ hs' = [hs EXCEPT ![c] =
                         [claims |-> NoClaims,
                          verified |-> (json /\ verifyGEWISToken(tok)),
                          radioKey |-> key]]
            /\ UNCHANGED <<id, deadline>>
       ELSE /\ CanRegister(c, GEWISClaims(tok))
            /\ pc' = [pc EXCEPT ![c] = "reg"]
            /\ id' = [id EXCEPT ![c] = Itoa(GEWISClaims(tok).lidnr)]
            /\ deadline' = [deadline EXCEPT ![c] = "fresh"]
            /\ hs' = [hs EXCEPT ![c] =
                         [claims |-> GEWISClaims(tok),
                          verified |-> (json /\ verifyGEWISToken(tok)),
                          radioKey |-> IF role[c] = "radio" THEN key
                                       ELSE <<>>]]
    /\ UNCHANGED <<radioChatKey, lim, nconn, ping, role, in, mutex, writeMu,
                   users, radios, prev, conns, target, mid, disp, wire, closes,
                   replacedBy, nframes, npings, nfail>>

\* conn.WriteControl(CloseMessage, 4103): no Client exists, no lock is taken.
HsWrite4103(c) ==
    /\ pc[c] = "hs_write4103"
    /\ \E ok \in CloseResults(c) :
          wire' = [wire EXCEPT ![c] =
              Append(@, ControlWrite(H(c), "close", CodeBadRadioKey, ok))]
    /\ pc' = [pc EXCEPT ![c] = "hs_close"]
    /\ UNCHANGED <<radioChatKey, lim, nconn, ping, role, id, hs, in, mutex,
                   writeMu, users, radios, prev, conns, target, mid, disp,
                   closes, replacedBy, deadline, nframes, npings, nfail>>

\* conn.Close() of a handshake that failed.
HsClose(c) ==
    /\ pc[c] = "hs_close"
    /\ closes' = [closes EXCEPT ![c] = Append(@, H(c))]
    /\ pc' = [pc EXCEPT ![c] = "closed"]
    /\ UNCHANGED <<radioChatKey, lim, nconn, ping, role, id, hs, in, mutex,
                   writeMu, users, radios, prev, conns, target, mid, disp,
                   wire, replacedBy, deadline, nframes, npings, nfail>>

\* ------------------------------------------------------------ registration
\* A mutated registration: the previous session is not looked for.
RegLockNoEviction(c) ==
    /\ ~Busy
    /\ pc[c] = "reg"
    /\ mutex = Free
    /\ mutex' = H(c)
    /\ pc' = [pc EXCEPT ![c] = "reg_insert"]
    /\ UNCHANGED <<radioChatKey, lim, nconn, ping, role, id, hs, in, writeMu,
                   users, radios, prev, conns, target, mid, disp, wire, closes,
                   replacedBy, deadline, nframes, npings, nfail>>

\* A mutated registration: a radio looks for a radio of its identity and
\* supersedes it as a user supersedes a user.
RegLockEvictsRadios(c) ==
    /\ ~Busy
    /\ pc[c] = "reg"
    /\ mutex = Free
    /\ mutex' = H(c)
    /\ IF role[c] = "user" /\ id[c] \in DOMAIN users
       THEN /\ prev' = [prev EXCEPT ![c] = users[id[c]]]
            /\ pc' = [pc EXCEPT ![c] = "evict_wlock"]
       ELSE IF role[c] = "radio" /\ \E r \in radios : id[r] = id[c]
       THEN /\ \E r \in radios :
                  /\ id[r] = id[c]
                  /\ prev' = [prev EXCEPT ![c] = r]
            /\ pc' = [pc EXCEPT ![c] = "evict_wlock"]
       ELSE /\ pc' = [pc EXCEPT ![c] = "reg_insert"]
            /\ UNCHANGED prev
    /\ UNCHANGED <<radioChatKey, lim, nconn, ping, role, id, hs, in, writeMu,
                   users, radios, conns, target, mid, disp, wire, closes,
                   replacedBy, deadline, nframes, npings, nfail>>

\* A mutated registration: the previous session is looked for by identity
\* alone, among the users and among the radios, whatever the role.
RegLockAcrossRoles(c) ==
    /\ ~Busy
    /\ pc[c] = "reg"
    /\ mutex = Free
    /\ mutex' = H(c)
    /\ IF id[c] \in DOMAIN users
       THEN /\ prev' = [prev EXCEPT ![c] = users[id[c]]]
            /\ pc' = [pc EXCEPT ![c] = "evict_wlock"]
       ELSE IF \E r \in radios : id[r] = id[c]
       THEN /\ \E r \in radios :
                  /\ id[r] = id[c]
                  /\ prev' = [prev EXCEPT ![c] = r]
            /\ pc' = [pc EXCEPT ![c] = "evict_wlock"]
       ELSE /\ pc' = [pc EXCEPT ![c] = "reg_insert"]
            /\ UNCHANGED prev
    /\ UNCHANGED <<radioChatKey, lim, nconn, ping, role, id, hs, in, writeMu,
                   users, radios, conns, target, mid, disp, wire, closes,
                   replacedBy, deadline, nframes, npings, nfail>>

\* c.mutex.Lock(), and for a user the look for a previous session.
RegLock(c) ==
    /\ ~Busy
    /\ pc[c] = "reg"
    /\ mutex = Free
    /\ mutex' = H(c)
    /\ IF role[c] = "user" /\ id[c] \in DOMAIN users
       THEN /\ prev' = [prev EXCEPT ![c] = users[id[c]]]
            /\ pc' = [pc EXCEPT ![c] = "evict_wlock"]
       ELSE /\ pc' = [pc EXCEPT ![c] = "reg_insert"]
            /\ UNCHANGED prev
    /\ UNCHANGED <<radioChatKey, lim, nconn, ping, role, id, hs, in, writeMu,
                   users, radios, conns, target, mid, disp, wire, closes,
                   replacedBy, deadline, nframes, npings, nfail>>

\* A mutated close of the previous session: written without its write lock.
EvictNoWLock(c) ==
    /\ ~Busy
    /\ pc[c] = "evict_wlock"
    /\ pc' = [pc EXCEPT ![c] = "evict_write"]
    /\ UNCHANGED <<radioChatKey, lim, nconn, ping, role, id, hs, in, mutex,
                   writeMu, users, radios, prev, conns, target, mid, disp,
                   wire, closes, replacedBy, deadline, nframes, npings, nfail>>

\* prev.writeControl: cl.writeMu.Lock(), with the registry mutex held.
EvictWLock(c) ==
    /\ ~Busy
    /\ pc[c] = "evict_wlock"
    /\ writeMu[prev[c]] = Free
    /\ writeMu' = [writeMu EXCEPT ![prev[c]] = H(c)]
    /\ pc' = [pc EXCEPT ![c] = "evict_write"]
    /\ UNCHANGED <<radioChatKey, lim, nconn, ping, role, id, hs, in, mutex,
                   users, radios, prev, conns, target, mid, disp, wire, closes,
                   replacedBy, deadline, nframes, npings, nfail>>

\* prev.writeControl: the close frame 4100 is written, the write lock released.
EvictWrite(c) ==
    /\ ~Busy
    /\ pc[c] = "evict_write"
    /\ \E ok \in CloseResults(prev[c]) :
          wire' = [wire EXCEPT ![prev[c]] =
              Append(@, ControlWrite(H(c), "close", CodeSuperseded, ok))]
    /\ writeMu' = [writeMu EXCEPT ![prev[c]] =
                      IF @ = H(c) THEN Free ELSE @]
    /\ pc' = [pc EXCEPT ![c] = "evict_close"]
    /\ UNCHANGED <<radioChatKey, lim, nconn, ping, role, id, hs, in, mutex,
                   users, radios, prev, conns, target, mid, disp, closes,
                   replacedBy, deadline, nframes, npings, nfail>>

\* prev.conn.Close(), with the registry mutex held.
EvictClose(c) ==
    /\ ~Busy
    /\ pc[c] = "evict_close"
    /\ closes' = [closes EXCEPT ![prev[c]] = Append(@, H(c))]
    /\ pc' = [pc EXCEPT ![c] = "reg_insert"]
    /\ UNCHANGED <<radioChatKey, lim, nconn, ping, role, id, hs, in, mutex,
                   writeMu, users, radios, prev, conns, target, mid, disp,
                   wire, replacedBy, deadline, nframes, npings, nfail>>

\* A mutated insertion: the connection is stored in both structures.
RegInsertBoth(c) ==
    /\ ~Busy
    /\ pc[c] = "reg_insert"
    /\ users' = [k \in DOMAIN users \cup {id[c]} |->
                    IF k = id[c] THEN c ELSE users[k]]
    /\ radios' = radios \cup {c}
    /\ mutex' = Free
    /\ pc' = [pc EXCEPT ![c] = "hs_dispatch"]
    /\ UNCHANGED <<radioChatKey, lim, nconn, ping, role, id, hs, in, writeMu,
                   prev, conns, target, mid, disp, wire, closes, replacedBy,
                   deadline, nframes, npings, nfail>>

\* c.users[client.id] = client, or c.radios[client] = struct{}{}; Unlock.
RegInsert(c) ==
    /\ ~Busy
    /\ pc[c] = "reg_insert"
    /\ IF role[c] = "user"
       THEN /\ users' = [k \in DOMAIN users \cup {id[c]} |->
                            IF k = id[c] THEN c ELSE users[k]]
            /\ replacedBy' = IF id[c] \in DOMAIN users
                             THEN [replacedBy EXCEPT ![users[id[c]]] = c]
                             ELSE replacedBy
            /\ UNCHANGED radios
       ELSE /\ radios' = radios \cup {c}
            /\ UNCHANGED <<users, replacedBy>>
    /\ mutex' = Free
    /\ pc' = [pc EXCEPT ![c] = "hs_dispatch"]
    /\ UNCHANGED <<radioChatKey, lim, nconn, ping, role, id, hs, in, writeMu,
                   prev, conns, target, mid, disp, wire, closes, deadline,
                   nframes, npings, nfail>>

\* ---------------------------------------------------------------- dispatch
\* Where H(c) goes on when a dispatch returns: HandleWS starts the two
\* goroutines, handleClient reads the next frame.
Return(c) == IF ping[c] = "unstarted" THEN "spawn" ELSE "read"

Dispatched(v, kind, done) ==
    [msg |-> OutgoingMessage(v), kind |-> kind, snapped |-> done,
     targets |-> {}, done |-> done]

\* A mutated dispatch: a radio's message without a target is looked up too.
dispatchNoEmptyCheck(c, v) ==
    /\ disp' = [disp EXCEPT ![c] = Append(@, Dispatched(v,
                 IF role[c] = "user" THEN "broadcast" ELSE "unicast", FALSE))]
    /\ mid' = [mid EXCEPT ![c] = Len(disp[c]) + 1]
    /\ in' = [in EXCEPT ![c] = v]
    /\ pc' = [pc EXCEPT ![c] =
                 IF role[c] = "user" THEN "fwd_radios" ELSE "fwd_user"]

\* A mutated dispatch: a message that names a target goes to forwardToUser,
\* whatever the role of the connection that sent it.
dispatchByTarget(c, v) ==
    IF OutgoingMessage(v).to # <<>>
    THEN /\ disp' = [disp EXCEPT ![c] =
                        Append(@, Dispatched(v, "unicast", FALSE))]
         /\ mid' = [mid EXCEPT ![c] = Len(disp[c]) + 1]
         /\ in' = [in EXCEPT ![c] = v]
         /\ pc' = [pc EXCEPT ![c] = "fwd_user"]
    ELSE IF role[c] = "user"
    THEN /\ disp' = [disp EXCEPT ![c] =
                        Append(@, Dispatched(v, "broadcast", FALSE))]
         /\ mid' = [mid EXCEPT ![c] = Len(disp[c]) + 1]
         /\ in' = [in EXCEPT ![c] = v]
         /\ pc' = [pc EXCEPT ![c] = "fwd_radios"]
    ELSE /\ disp' = [disp EXCEPT ![c] =
                        Append(@, Dispatched(v, "dropped", TRUE))]
         /\ mid' = [mid EXCEPT ![c] = 0]
         /\ in' = [in EXCEPT ![c] = NoFrame]
         /\ pc' = [pc EXCEPT ![c] = Return(c)]

\* dispatch: the outgoing message is built from the frame and the claims of
\* the frame's token; a user's goes to forwardToRadios, a radio's without a
\* target is dropped, a radio's with a target goes to forwardToUser.
dispatch(c, v) ==
    IF role[c] = "user"
    THEN /\ disp' = [disp EXCEPT ![c] =
                        Append(@, Dispatched(v, "broadcast", FALSE))]
         /\ mid' = [mid EXCEPT ![c] = Len(disp[c]) + 1]
         /\ in' = [in EXCEPT ![c] = v]
         /\ pc' = [pc EXCEPT ![c] = "fwd_radios"]
    ELSE IF OutgoingMessage(v).to = <<>>
    THEN /\ disp' = [disp EXCEPT ![c] =
                        Append(@, Dispatched(v, "dropped", TRUE))]
         /\ mid' = [mid EXCEPT ![c] = 0]
         /\ in' = [in EXCEPT ![c] = NoFrame]
         /\ pc' = [pc EXCEPT ![c] = Return(c)]
    ELSE /\ disp' = [disp EXCEPT ![c] =
                        Append(@, Dispatched(v, "unicast", FALSE))]
         /\ mid' = [mid EXCEPT ![c] = Len(disp[c]) + 1]
         /\ in' = [in EXCEPT ![c] = v]
         /\ pc' = [pc EXCEPT ![c] = "fwd_user"]

\* A mutated handshake: its frame is dispatched whatever it carries.
HsDispatchAlways(c, to, content) ==
    /\ pc[c] = "hs_dispatch"
    /\ nframes < lim.frames
    /\ nframes' = nframes + 1
    /\ dispatch(c, Verified(hs[c].claims, to, content))
    /\ UNCHANGED <<radioChatKey, lim, nconn, ping, role, id, hs, mutex,
                   writeMu, users, radios, prev, conns, target, wire, closes,
                   replacedBy, deadline, npings, nfail>>

\* The handshake frame is dispatched, with the claims of the handshake, when
\* its content or its target is not blank.  in[c] holds first, the decoded
\* handshake frame, until the goroutines are started.
HsDispatch(c, to, content) ==
    /\ pc[c] = "hs_dispatch"
    /\ IF TrimSpace(content) # <<>> \/ TrimSpace(to) # <<>>
       THEN /\ nframes < lim.frames
            /\ nframes' = nframes + 1
            /\ dispatch(c, Verified(hs[c].claims, to, content))
       ELSE /\ pc' = [pc EXCEPT ![c] = "spawn"]
            /\ in' = [in EXCEPT ![c] = Verified(hs[c].claims, to, content)]
            /\ UNCHANGED <<mid, disp, nframes>>
    /\ UNCHANGED <<radioChatKey, lim, nconn, ping, role, id, hs, mutex,
                   writeMu, users, radios, prev, conns, target, wire, closes,
                   replacedBy, deadline, npings, nfail>>

\* The slice forwardToRadios iterates over: every radio of the registry.
SnapshotRadios == radios

\* A mutated lookup: every registered user is a target.
LookupAllUsers(userID) == {users[k] : k \in DOMAIN users}

\* A mutated lookup: a name with no entry finds the other users.
LookupUserOrOthers(userID) ==
    IF userID \in DOMAIN users THEN {users[userID]}
    ELSE {users[k] : k \in DOMAIN users}

\* The target forwardToUser finds: c.users[userID], if there is one.
LookupUser(userID) ==
    IF userID \in DOMAIN users THEN {users[userID]} ELSE {}

\* The recipients are known: the first is taken up, or the dispatch returns.
Forward(c, rcpts) ==
    /\ disp' = [disp EXCEPT ![c][mid[c]] =
                   [@ EXCEPT !.snapped = TRUE, !.targets = rcpts,
                             !.done = (rcpts = {})]]
    /\ IF rcpts = {}
       THEN /\ pc' = [pc EXCEPT ![c] = Return(c)]
            /\ mid' = [mid EXCEPT ![c] = 0]
            /\ in' = [in EXCEPT ![c] = NoFrame]
            /\ UNCHANGED <<target, conns>>
       ELSE /\ \E r \in rcpts :
                  /\ target' = [target EXCEPT ![c] = r]
                  /\ conns' = [conns EXCEPT ![c] = rcpts \ {r}]
            /\ pc' = [pc EXCEPT ![c] = "w_lock"]
            /\ UNCHANGED <<mid, in>>

\* forwardToRadios: the snapshot of c.radios under the registry mutex; the
\* order of the slice is the map's iteration order, which is any order.
Snapshot(c) ==
    /\ ~Busy
    /\ pc[c] = "fwd_radios"
    /\ mutex = Free
    /\ Forward(c, SnapshotRadios)
    /\ UNCHANGED <<radioChatKey, lim, nconn, ping, role, id, hs, mutex,
                   writeMu, users, radios, prev, wire, closes, replacedBy,
                   deadline, nframes, npings, nfail>>

\* forwardToUser: the lookup of c.users[userID] under the registry mutex.
Lookup(c) ==
    /\ ~Busy
    /\ pc[c] = "fwd_user"
    /\ mutex = Free
    /\ Forward(c, LookupUser(in[c].to))
    /\ UNCHANGED <<radioChatKey, lim, nconn, ping, role, id, hs, mutex,
                   writeMu, users, radios, prev, wire, closes, replacedBy,
                   deadline, nframes, npings, nfail>>

\* writeMessage: cl.writeMu.Lock().
WriteLock(c) ==
    /\ ~Busy
    /\ pc[c] = "w_lock"
    /\ writeMu[target[c]] = Free
    /\ writeMu' = [writeMu EXCEPT ![target[c]] = H(c)]
    /\ pc' = [pc EXCEPT ![c] = "w_write"]
    /\ UNCHANGED <<radioChatKey, lim, nconn, ping, role, id, hs, in, mutex,
                   users, radios, prev, conns, target, mid, disp, wire, closes,
                   replacedBy, deadline, nframes, npings, nfail>>

\* A mutated forwarding loop: a write error ends the loop.
WriteMessageStopsOnError(c) ==
    /\ ~Busy
    /\ pc[c] = "w_write"
    /\ \E ok \in WriteResults(target[c]) :
          /\ wire' = [wire EXCEPT ![target[c]] =
                Append(@, MsgWrite(H(c), mid[c], OutgoingMessage(in[c]), ok))]
          /\ nfail' = Failures(target[c], ok)
          /\ IF conns[c] = {} \/ ~ok
             THEN /\ pc' = [pc EXCEPT ![c] = Return(c)]
                  /\ disp' = [disp EXCEPT ![c][mid[c]].done = TRUE]
                  /\ mid' = [mid EXCEPT ![c] = 0]
                  /\ in' = [in EXCEPT ![c] = NoFrame]
                  /\ target' = [target EXCEPT ![c] = 0]
                  /\ conns' = [conns EXCEPT ![c] = {}]
             ELSE /\ \E r \in conns[c] :
                        /\ target' = [target EXCEPT ![c] = r]
                        /\ conns' = [conns EXCEPT ![c] = @ \ {r}]
                  /\ pc' = [pc EXCEPT ![c] = "w_lock"]
                  /\ UNCHANGED <<mid, in, disp>>
    /\ writeMu' = [writeMu EXCEPT ![target[c]] =
                      IF @ = H(c) THEN Free ELSE @]
    /\ UNCHANGED <<radioChatKey, lim, nconn, ping, role, id, hs, mutex, users,
                   radios, prev, closes, replacedBy, deadline, nframes,
                   npings>>

\* A mutated write: the frame is put before what the transport was written
\* earlier.
WriteMessageOvertakes(c) ==
    /\ ~Busy
    /\ pc[c] = "w_write"
    /\ \E ok \in WriteResults(target[c]) :
          /\ wire' = [wire EXCEPT ![target[c]] =
                <<MsgWrite(H(c), mid[c], OutgoingMessage(in[c]), ok)>> \o @]
          /\ nfail' = Failures(target[c], ok)
    /\ writeMu' = [writeMu EXCEPT ![target[c]] =
                      IF @ = H(c) THEN Free ELSE @]
    /\ IF conns[c] = {}
       THEN /\ pc' = [pc EXCEPT ![c] = Return(c)]
            /\ disp' = [disp EXCEPT ![c][mid[c]].done = TRUE]
            /\ mid' = [mid EXCEPT ![c] = 0]
            /\ in' = [in EXCEPT ![c] = NoFrame]
            /\ target' = [target EXCEPT ![c] = 0]
            /\ UNCHANGED conns
       ELSE /\ \E r \in conns[c] :
                  /\ target' = [target EXCEPT ![c] = r]
                  /\ conns' = [conns EXCEPT ![c] = @ \ {r}]
            /\ pc' = [pc EXCEPT ![c] = "w_lock"]
            /\ UNCHANGED <<mid, in, disp>>
    /\ UNCHANGED <<radioChatKey, lim, nconn, ping, role, id, hs, mutex, users,
                   radios, prev, closes, replacedBy, deadline, nframes,
                   npings>>

\* A mutated write: the write lock is released when the frame was written,
\* and kept when the write returned an error.
WriteMessageKeepsLockOnError(c) ==
    /\ ~Busy
    /\ pc[c] = "w_write"
    /\ \E ok \in WriteResults(target[c]) :
          /\ wire' = [wire EXCEPT ![target[c]] =
                Append(@, MsgWrite(H(c), mid[c], OutgoingMessage(in[c]), ok))]
          /\ nfail' = Failures(target[c], ok)
          /\ writeMu' = [writeMu EXCEPT ![target[c]] =
                            IF @ = H(c) /\ ok THEN Free ELSE @]
    /\ IF conns[c] = {}
       THEN /\ pc' = [pc EXCEPT ![c] = Return(c)]
            /\ disp' = [disp EXCEPT ![c][mid[c]].done = TRUE]
            /\ mid' = [mid EXCEPT ![c] = 0]
            /\ in' = [in EXCEPT ![c] = NoFrame]
            /\ target' = [target EXCEPT ![c] = 0]
            /\ UNCHANGED conns
       ELSE /\ \E r \in conns[c] :
                  /\ target' = [target EXCEPT ![c] = r]
                  /\ conns' = [conns EXCEPT ![c] = @ \ {r}]
            /\ pc' = [pc EXCEPT ![c] = "w_lock"]
            /\ UNCHANGED <<mid, in, disp>>
    /\ UNCHANGED <<radioChatKey, lim, nconn, ping, role, id, hs, mutex, users,
                   radios, prev, closes, replacedBy, deadline, nframes,
                   npings>>

\* writeMessage: the frame is written and the write lock released; its error
\* is discarded, and the loop goes on to the next connection of the slice.
WriteMessage(c) ==
    /\ ~Busy
    /\ pc[c] = "w_write"
    /\ \E ok \in WriteResults(target[c]) :
          /\ wire' = [wire EXCEPT ![target[c]] =
                Append(@, MsgWrite(H(c), mid[c], OutgoingMessage(in[c]), ok))]
          /\ nfail' = Failures(target[c], ok)
    /\ writeMu' = [writeMu EXCEPT ![target[c]] =
                      IF @ = H(c) THEN Free ELSE @]
    /\ IF conns[c] = {}
       THEN /\ pc' = [pc EXCEPT ![c] = Return(c)]
            /\ disp' = [disp EXCEPT ![c][mid[c]].done = TRUE]
            /\ mid' = [mid EXCEPT ![c] = 0]
            /\ in' = [in EXCEPT ![c] = NoFrame]
            /\ target' = [target EXCEPT ![c] = 0]
            /\ UNCHANGED conns
       ELSE /\ \E r \in conns[c] :
                  /\ target' = [target EXCEPT ![c] = r]
                  /\ conns' = [conns EXCEPT ![c] = @ \ {r}]
            /\ pc' = [pc EXCEPT ![c] = "w_lock"]
            /\ UNCHANGED <<mid, in, disp>>
    /\ UNCHANGED <<radioChatKey, lim, nconn, ping, role, id, hs, mutex, users,
                   radios, prev, closes, replacedBy, deadline, nframes,
                   npings>>

\* ------------------------------------------------------------ handleClient
\* HandleWS starts the ping goroutine and handleClient.
Spawn(c) ==
    /\ pc[c] = "spawn"
    /\ ping' = [ping EXCEPT ![c] = "tick"]
    /\ pc' = [pc EXCEPT ![c] = "read"]
    /\ in' = [in EXCEPT ![c] = NoFrame]
    /\ UNCHANGED <<radioChatKey, lim, nconn, role, id, hs, mutex, writeMu,
                   users, radios, prev, conns, target, mid, disp, wire, closes,
                   replacedBy, deadline, nframes, npings, nfail>>

\* What disp keeps of a frame the read loop skipped.
Skipped(kind) ==
    [msg |-> NoMessage, kind |-> kind, snapped |-> FALSE, targets |-> {},
     done |-> TRUE]

\* A mutated read loop: a frame that does not decode ends the loop, and the
\* deferred cleanup runs.
ReadFrameStopsOnBadJson(c, json, f) ==
    /\ ~Busy
    /\ pc[c] = "read"
    /\ CanStart
    /\ nframes < lim.frames
    /\ nframes' = nframes + 1
    /\ IF ~json
       THEN /\ mutex = Free
            /\ disp' = [disp EXCEPT ![c] = Append(@, Skipped("undecoded"))]
            /\ pc' = [pc EXCEPT ![c] = "cl_close"]
            /\ IF role[c] = "user"
               THEN /\ users' = [k \in DOMAIN users \ {id[c]} |-> users[k]]
                    /\ UNCHANGED radios
               ELSE /\ radios' = radios \ {c}
                    /\ UNCHANGED users
            /\ UNCHANGED <<in, mid>>
       ELSE /\ UNCHANGED <<users, radios>>
            /\ IF ~verifyGEWISToken(f.token)
               THEN /\ disp' = [disp EXCEPT ![c] =
                                   Append(@, Skipped("unverified"))]
                    /\ UNCHANGED <<pc, in, mid>>
               ELSE dispatch(c, Verified(GEWISClaims(f.token), f.to,
                                         f.content))
    /\ UNCHANGED <<radioChatKey, lim, nconn, ping, role, id, hs, mutex,
                   writeMu, prev, conns, target, wire, closes, replacedBy,
                   deadline, npings, nfail>>

\* A mutated read loop: a frame whose token is rejected ends the loop, and the
\* deferred cleanup runs.
ReadFrameStopsOnBadToken(c, json, f) ==
    /\ ~Busy
    /\ pc[c] = "read"
    /\ CanStart
    /\ nframes < lim.frames
    /\ nframes' = nframes + 1
    /\ IF ~json
       THEN /\ disp' = [disp EXCEPT ![c] = Append(@, Skipped("undecoded"))]
            /\ UNCHANGED <<pc, in, mid, users, radios>>
       ELSE IF ~verifyGEWISToken(f.token)
       THEN /\ mutex = Free
            /\ disp' = [disp EXCEPT ![c] = Append(@, Skipped("unverified"))]
            /\ pc' = [pc EXCEPT ![c] = "cl_close"]
            /\ IF role[c] = "user"
               THEN /\ users' = [k \in DOMAIN users \ {id[c]} |-> users[k]]
                    /\ UNCHANGED radios
               ELSE /\ radios' = radios \ {c}
                    /\ UNCHANGED users
            /\ UNCHANGED <<in, mid>>
       ELSE /\ dispatch(c, Verified(GEWISClaims(f.token), f.to, f.content))
            /\ UNCHANGED <<users, radios>>
    /\ UNCHANGED <<radioChatKey, lim, nconn, ping, role, id, hs, mutex,
                   writeMu, prev, conns, target, wire, closes, replacedBy,
                   deadline, npings, nfail>>

\* ReadMessage returns a frame: one that does not decode (json tells) or
\* whose token is rejected is skipped, any other is dispatched with the claims
\* of its own token.
ReadFrame(c, json, f) ==
    /\ ~Busy
    /\ pc[c] = "read"
    /\ CanStart
    /\ nframes < lim.frames
    /\ nframes' = nframes + 1
    /\ IF ~json
       THEN /\ disp' = [disp EXCEPT ![c] = Append(@, Skipped("undecoded"))]
            /\ UNCHANGED <<pc, in, mid>>
       ELSE IF ~verifyGEWISToken(f.token)
       THEN /\ disp' = [disp EXCEPT ![c] = Append(@, Skipped("unverified"))]
            /\ UNCHANGED <<pc, in, mid>>
       ELSE dispatch(c, Verified(GEWISClaims(f.token), f.to, f.content))
    /\ UNCHANGED <<radioChatKey, lim, nconn, ping, role, id, hs, mutex,
                   writeMu, users, radios, prev, conns, target, wire, closes,
                   replacedBy, deadline, npings, nfail>>

\* A mutated cleanup: the role is tested the wrong way round.
ReadErrWrongStructure(c) ==
    /\ ~Busy
    /\ pc[c] = "read"
    /\ CanStart
    /\ mutex = Free
    /\ IF role[c] # "user"
       THEN /\ users' = [k \in DOMAIN users \ {id[c]} |-> users[k]]
            /\ UNCHANGED radios
       ELSE /\ radios' = radios \ {c}
            /\ UNCHANGED users
    /\ pc' = [pc EXCEPT ![c] = "cl_close"]
    /\ UNCHANGED <<radioChatKey, lim, nconn, ping, role, id, hs, in, mutex,
                   writeMu, prev, conns, target, mid, disp, wire, closes,
                   replacedBy, deadline, nframes, npings, nfail>>

\* ReadMessage returns an error (the peer closed, the transport failed or
\* was closed, the read deadline passed) and the deferred cleanup runs:
\* delete(c.users, client.id) or delete(c.radios, client), under the registry
\* mutex.  A handler that waits for the mutex there is a handler whose read
\* fails later.
ReadErr(c) ==
    /\ ~Busy
    /\ pc[c] = "read"
    /\ CanStart
    /\ mutex = Free
    /\ IF role[c] = "user"
       THEN /\ users' = [k \in DOMAIN users \ {id[c]} |-> users[k]]
            /\ UNCHANGED radios
       ELSE /\ radios' = radios \ {c}
            /\ UNCHANGED users
    /\ pc' = [pc EXCEPT ![c] = "cl_close"]
    /\ UNCHANGED <<radioChatKey, lim, nconn, ping, role, id, hs, in, mutex,
                   writeMu, prev, conns, target, mid, disp, wire, closes,
                   replacedBy, deadline, nframes, npings, nfail>>

\* A mutated cleanup: the transport is not closed.
CleanupNoClose(c) ==
    /\ ~Busy
    /\ pc[c] = "cl_close"
    /\ pc' = [pc EXCEPT ![c] = "done"]
    /\ UNCHANGED <<radioChatKey, lim, nconn, ping, role, id, hs, in, mutex,
                   writeMu, users, radios, prev, conns, target, mid, disp,
                   wire, closes, replacedBy, deadline, nframes, npings, nfail>>

\* The deferred cleanup: client.conn.Close().
CleanupClose(c) ==
    /\ ~Busy
    /\ pc[c] = "cl_close"
    /\ closes' = [closes EXCEPT ![c] = Append(@, H(c))]
    /\ pc' = [pc EXCEPT ![c] = "done"]
    /\ UNCHANGED <<radioChatKey, lim, nconn, ping, role, id, hs, in, mutex,
                   writeMu, users, radios, prev, conns, target, mid, disp,
                   wire, replacedBy, deadline, nframes, npings, nfail>>

\* --------------------------------------------------------------- keepalive
\* The ticker has fired and writeControl takes the write lock:
\* cl.writeMu.Lock().  A ping that waits for the lock is a ping whose tick
\* comes later.
PingLock(c) ==
    /\ ~Busy
    /\ ping[c] = "tick"
    /\ CanStart
    /\ npings < lim.pings
    /\ npings' = npings + 1
    /\ writeMu[c] = Free
    /\ writeMu' = [writeMu EXCEPT ![c] = P(c)]
    /\ ping' = [ping EXCEPT ![c] = "p_write"]
    /\ UNCHANGED <<radioChatKey, lim, nconn, pc, role, id, hs, in, mutex,
                   users, radios, prev, conns, target, mid, disp, wire, closes,
                   replacedBy, deadline, nframes, nfail>>

\* writeControl: the ping is written and the write lock released; the
\* goroutine returns on an error.
PingWrite(c) ==
    /\ ~Busy
    /\ ping[c] = "p_write"
    /\ \E ok \in WriteResults(c) :
          /\ wire' = [wire EXCEPT ![c] =
                         Append(@, ControlWrite(P(c), "ping", 0, ok))]
          /\ nfail' = Failures(c, ok)
          /\ ping' = [ping EXCEPT ![c] = IF ok THEN "tick" ELSE "stopped"]
    /\ writeMu' = [writeMu EXCEPT ![c] = IF @ = P(c) THEN Free ELSE @]
    /\ UNCHANGED <<radioChatKey, lim, nconn, pc, role, id, hs, in, mutex,
                   users, radios, prev, conns, target, mid, disp, closes,
                   replacedBy, deadline, nframes, npings>>

\* ------------------------------------------------------------ specification
Next ==
    \/ ConnectBadRole
    \/ ConnectUpgradeFails
    \/ Connect
    \/ \E c \in Conns : HandshakeReadErr(c)
    \/ \E c \in Conns :
          \E json \in BOOLEAN, tok \in HandshakeTokens(role[c]),
             key \in KeyValues :
             Handshake(c, json, tok, key)
    \/ \E c \in Conns : HsWrite4103(c)
    \/ \E c \in Conns : HsClose(c)
    \/ \E c \in Conns : RegLock(c)
    \/ \E c \in Conns : EvictWLock(c)
    \/ \E c \in Conns : EvictWrite(c)
    \/ \E c \in Conns : EvictClose(c)
    \/ \E c \in Conns : RegInsert(c)
    \/ \E c \in Conns : \E to \in ToValues, content \in ContentValues :
          HsDispatch(c, to, content)
    \/ \E c \in Conns : Spawn(c)
    \/ \E c \in Conns : \E json \in BOOLEAN, f \in SteadyFrames :
          ReadFrame(c, json, f)
    \/ \E c \in Conns : Snapshot(c)
    \/ \E c \in Conns : Lookup(c)
    \/ \E c \in Conns : WriteLock(c)
    \/ \E c \in Conns : WriteMessage(c)
    \/ \E c \in Conns : ReadErr(c)
    \/ \E c \in Conns : CleanupClose(c)
    \/ \E c \in Conns : PingLock(c)
    \/ \E c \in Conns : PingWrite(c)

Spec == Init /\ [][Next]_vars

\* Runs in which the read loops take two frames, of fewer connections.
InitLoop ==
    InitWith([Bounds EXCEPT !.conns = NConnLoop, !.frames = MaxFramesLoop],
             GoodKey)

SpecLoop == InitLoop /\ [][Next]_vars

--------------------------------------------------------------------------
\* ------------------------------------------------ the reasons of a failed read
\* Spec lets the read of a connection fail at any moment and takes the failure
\* and the deferred delete as one step.  The steps below tell the reasons of a
\* failed read apart and let the cleanup wait for the registry mutex, for the
\* properties that say what happens in the end.

\* Time passes while H(c) is blocked in ReadMessage: the deadline, pongWait
\* after it was set, comes nearer and then is passed.  As long as the
\* keepalive task of c sends pings, whether the deadline is passed is up to
\* the peer that answers them, and ReadFails with the peer as its reason
\* covers it; once the task has returned no ping asks for a pong any more.
Elapse(c) ==
    /\ ~Busy
    /\ pc[c] = "read"
    /\ ping[c] = "stopped"
    /\ deadline[c] \in {"fresh", "aging"}
    /\ deadline' = [deadline EXCEPT ![c] =
                       IF @ = "fresh" THEN "aging" ELSE "lapsed"]
    /\ UNCHANGED <<radioChatKey, lim, nconn, pc, ping, role, id, hs, in, mutex,
                   writeMu, users, radios, prev, conns, target, mid, disp,
                   wire, closes, replacedBy, nframes, npings, nfail>>

\* The peer sends a pong, in answer to a ping or of its own accord, before
\* the deadline: the pong handler sets the deadline anew.
Pong(c) ==
    /\ ~Busy
    /\ pc[c] = "read"
    /\ deadline[c] = "aging"
    /\ deadline' = [deadline EXCEPT ![c] = "fresh"]
    /\ UNCHANGED <<radioChatKey, lim, nconn, pc, ping, role, id, hs, in, mutex,
                   writeMu, users, radios, prev, conns, target, mid, disp,
                   wire, closes, replacedBy, nframes, npings, nfail>>

\* Why ReadMessage may return an error: the peer closed or the network
\* failed, at any moment; the read deadline has passed; the server closed
\* the transport.
ReadFailure(c, why) ==
    \/ why = "peer"
    \/ why = "deadline" /\ deadline[c] = "lapsed"
    \/ why = "closed" /\ Closed(c)

\* ReadMessage returns an error and the read loop returns: the deferred
\* cleanup asks for the registry mutex.
ReadFails(c, why) ==
    /\ ~Busy
    /\ pc[c] = "read"
    /\ CanStart
    /\ ReadFailure(c, why)
    /\ pc' = [pc EXCEPT ![c] = "cl_lock"]
    /\ UNCHANGED <<radioChatKey, lim, nconn, ping, role, id, hs, in, mutex,
                   writeMu, users, radios, prev, conns, target, mid, disp,
                   wire, closes, replacedBy, deadline, nframes, npings, nfail>>

\* A mutated cleanup: nothing is deleted from the registry.
CleanupKeepsEntry(c) ==
    /\ ~Busy
    /\ pc[c] = "cl_lock"
    /\ mutex = Free
    /\ pc' = [pc EXCEPT ![c] = "cl_close"]
    /\ UNCHANGED <<radioChatKey, lim, nconn, ping, role, id, hs, in, mutex,
                   writeMu, users, radios, prev, conns, target, mid, disp,
                   wire, closes, replacedBy, deadline, nframes, npings, nfail>>

\* The deferred cleanup: c.mutex.Lock(), delete(c.users, client.id) or
\* delete(c.radios, client), c.mutex.Unlock().
CleanupDelete(c) ==
    /\ ~Busy
    /\ pc[c] = "cl_lock"
    /\ mutex = Free
    /\ IF role[c] = "user"
       THEN /\ users' = [k \in DOMAIN users \ {id[c]} |-> users[k]]
            /\ UNCHANGED radios
       ELSE /\ radios' = radios \ {c}
            /\ UNCHANGED users
    /\ pc' = [pc EXCEPT ![c] = "cl_close"]
    /\ UNCHANGED <<radioChatKey, lim, nconn, ping, role, id, hs, in, mutex,
                   writeMu, prev, conns, target, mid, disp, wire, closes,
                   replacedBy, deadline, nframes, npings, nfail>>

\* The ticker fires for a transport the server has closed.  The ticker is
\* stopped by nothing but the return of its goroutine, so these ticks are not
\* among the ticks MaxPings bounds.
PingLockClosed(c) ==
    /\ ~Busy
    /\ ping[c] = "tick"
    /\ Closed(c)
    /\ CanStart
    /\ writeMu[c] = Free
    /\ writeMu' = [writeMu EXCEPT ![c] = P(c)]
    /\ ping' = [ping EXCEPT ![c] = "p_write"]
    /\ UNCHANGED <<radioChatKey, lim, nconn, pc, role, id, hs, in, mutex,
                   users, radios, prev, conns, target, mid, disp, wire,
                   closes, replacedBy, deadline, nframes, npings, nfail>>

NextLive ==
    \/ ConnectBadRole
    \/ ConnectUpgradeFails
    \/ Connect
    \/ \E c \in Conns : HandshakeReadErr(c)
    \/ \E c \in Conns :
          \E json \in BOOLEAN, tok \in HandshakeTokens(role[c]),
             key \in KeyValues :
             Handshake(c, json, tok, key)
    \/ \E c \in Conns : HsWrite4103(c)
    \/ \E c \in Conns : HsClose(c)
    \/ \E c \in Conns : RegLock(c)
    \/ \E c \in Conns : EvictWLock(c)
    \/ \E c \in Conns : EvictWrite(c)
    \/ \E c \in Conns : EvictClose(c)
    \/ \E c \in Conns : RegInsert(c)
    \/ \E c \in Conns : \E to \in ToValues, content \in ContentValues :
          HsDispatch(c, to, content)
    \/ \E c \in Conns : Spawn(c)
    \/ \E c \in Conns : \E json \in BOOLEAN, f \in SteadyFrames :
          ReadFrame(c, json, f)
    \/ \E c \in Conns : Snapshot(c)
    \/ \E c \in Conns : Lookup(c)
    \/ \E c \in Conns : WriteLock(c)
    \/ \E c \in Conns : WriteMessage(c)
    \/ \E c \in Conns : Elapse(c)
    \/ \E c \in Conns : Pong(c)
    \/ \E c \in Conns : \E why \in {"peer", "deadline", "closed"} :
          ReadFails(c, why)
    \/ \E c \in Conns : CleanupDelete(c)
    \/ \E c \in Conns : CleanupClose(c)
    \/ \E c \in Conns : PingLock(c)
    \/ \E c \in Conns : PingLockClosed(c)
    \/ \E c \in Conns : PingWrite(c)

\* The steps of the handler of c that the program takes of itself: all but
\* the arrival of a request, of a frame of the read loop, and of a read error
\* the peer or the network causes.  The handshake steps are among them, for
\* they are the steps that are taken at once.
HandlerStep(c) ==
    \/ \E json \in BOOLEAN, tok \in HandshakeTokens(role[c]),
          key \in KeyValues : Handshake(c, json, tok, key)
    \/ HsWrite4103(c)
    \/ HsClose(c)
    \/ RegLock(c)
    \/ EvictWLock(c)
    \/ EvictWrite(c)
    \/ EvictClose(c)
    \/ RegInsert(c)
    \/ \E to \in ToValues, content \in ContentValues :
          HsDispatch(c, to, content)
    \/ Spawn(c)
    \/ Snapshot(c)
    \/ Lookup(c)
    \/ WriteLock(c)
    \/ WriteMessage(c)
    \/ ReadFails(c, "deadline")
    \/ ReadFails(c, "closed")
    \/ CleanupDelete(c)
    \/ CleanupClose(c)

\* The steps of the keepalive task of c.
PingStep(c) == PingLock(c) \/ PingLockClosed(c) \/ PingWrite(c)

\* Every goroutine that can take a step takes one in the end (the Go
\* scheduler runs every runnable goroutine, a sync.Mutex is handed to a
\* goroutine that waits for it, a write has a deadline), the ticker fires,
\* and time passes.
Fairness ==
    \A c \in Conns :
       /\ WF_vars(HandlerStep(c))
       /\ WF_vars(PingStep(c))
       /\ WF_vars(Elapse(c))

\* Runs of fewer connections, for the properties that say what happens in
\* the end.
InitLive ==
    InitWith([Bounds EXCEPT !.conns = NConnLive, !.frames = MaxFramesLive,
                            !.pings = MaxPingsLive, !.fail = MaxFailLive],
             GoodKey)

SpecLive == InitLive /\ [][NextLive]_vars /\ Fairness

--------------------------------------------------------------------------
\* ---------------------------------------------------------------- properties
\* The connections the registry holds.
Registered == radios \cup {users[k] : k \in DOMAIN users}

Range(q) == {q[n] : n \in DOMAIN q}

\* The places in wire[t] of the frames H(c) wrote for its dispatch number i.
Written(t, c, i) ==
    {n \in DOMAIN wire[t] :
        wire[t][n].kind = "msg" /\ wire[t][n].by = H(c) /\ wire[t][n].mid = i}

\* The places in wire[t] of the close frames with code 4100.
Close4100(t) ==
    {n \in DOMAIN wire[t] :
        wire[t][n].kind = "close" /\ wire[t][n].code = CodeSuperseded}

\* handleClient of c is in its read loop.
Running(c) ==
    /\ ping[c] # "unstarted"
    /\ pc[c] \in {"read", "fwd_radios", "fwd_user", "w_lock", "w_write"}

\* C1: a broadcast that has returned wrote exactly one frame to every radio
\* of its snapshot, with from equal to the identity of the sending connection
\* and the content that was sent, and no connection ever holds two frames of
\* one broadcast.
C1_BroadcastOnceFromSender ==
    \A c \in Conns : \A i \in DOMAIN disp[c] :
       disp[c][i].kind = "broadcast" =>
          /\ \A t \in Conns : Cardinality(Written(t, c, i)) <= 1
          /\ disp[c][i].done =>
                \A r \in disp[c][i].targets :
                   /\ Cardinality(Written(r, c, i)) = 1
                   /\ \A n \in Written(r, c, i) :
                         /\ wire[r][n].msg.from = id[c]
                         /\ wire[r][n].msg.content = disp[c][i].msg.content

\* The state part of C2: the targets of a radio's unicast are user
\* connections registered under the name in to, at most one; only a target is
\* written a frame of it, at most one, exactly one when the dispatch has
\* returned, with to equal to the name and the content that was sent.
C2_OnlyTheNamedUser ==
    \A c \in Conns : \A i \in DOMAIN disp[c] :
       disp[c][i].kind = "unicast" =>
          /\ role[c] = "radio"
          /\ Cardinality(disp[c][i].targets) <= 1
          /\ \A t \in disp[c][i].targets :
                role[t] = "user" /\ id[t] = disp[c][i].msg.to
          /\ \A t \in Conns :
                /\ t \notin disp[c][i].targets => Written(t, c, i) = {}
                /\ Cardinality(Written(t, c, i)) <= 1
                /\ (disp[c][i].done /\ t \in disp[c][i].targets)
                      => Cardinality(Written(t, c, i)) = 1
                /\ \A n \in Written(t, c, i) :
                      /\ wire[t][n].msg.to = id[t]
                      /\ wire[t][n].msg.content = disp[c][i].msg.content

\* The step part of C2: when the lookup of forwardToUser finds the name in
\* the registry, the connection registered under it is the one written next.
C2_LookupFindsTheNamedUser ==
    \A c \in Conns :
       (pc[c] = "fwd_user" /\ pc'[c] # "fwd_user"
           /\ in[c].to \in DOMAIN users)
          => /\ pc'[c] = "w_lock"
             /\ target'[c] = users[in[c].to]
             /\ conns'[c] = {}

\* C2: a radio's frame with a valid token and a to that names a registered
\* user is written once to the connection registered under that name and to
\* no other connection.
C2_Unicast == []C2_OnlyTheNamedUser /\ [][C2_LookupFindsTheNamedUser]_vars

\* A radio's unicast has returned and its frame is on the wire of the user
\* it named, while another user and the radio hold no frame of it.
C2_Witness ==
    \E c, t, o \in Conns :
       /\ role[c] = "radio" /\ disp[c] # <<>>
       /\ disp[c][1].kind = "unicast" /\ disp[c][1].done
       /\ disp[c][1].targets = {t}
       /\ Written(t, c, 1) # {}
       /\ o # t /\ o \in Registered /\ role[o] = "user"
       /\ Written(o, c, 1) = {} /\ Written(c, c, 1) = {}

\* C3: once c has replaced p in the registry, while the read loop of c runs
\* and no other connection of that identity has registered, the registry
\* resolves the identity to c.
C3_RegistryResolvesToSecond ==
    \A p, c \in Conns :
       (/\ replacedBy[p] = c
        /\ Running(c)
        /\ \A e \in Conns \ {p, c} : ~(role[e] = "user" /\ id[e] = id[c]))
          => (id[c] \in DOMAIN users /\ users[id[c]] = c)

\* C4: a connection whose registry entry was overwritten holds a close
\* frame 4100 written by the handler that replaced it, written before that
\* handler closed its transport; and a close frame 4100 is only ever written
\* to a user connection by the handler of a user connection of the same
\* identity that replaces it.
C4_SupersessionNotified ==
    /\ \A p, c \in Conns :
          replacedBy[p] = c =>
             /\ \E n \in Close4100(p) : wire[p][n].by = H(c)
             /\ H(c) \in Range(closes[p])
    /\ \A p, c \in Conns :
          (c # p /\ H(c) \in Range(closes[p]))
             => \E n \in Close4100(p) : wire[p][n].by = H(c)
    /\ \A p \in Conns : \A n \in Close4100(p) :
          \E c \in Conns \ {p} :
             /\ wire[p][n].by = H(c)
             /\ role[p] = "user" /\ role[c] = "user" /\ id[c] = id[p]
             /\ \/ replacedBy[p] = c
                \/ /\ pc[c] \in {"evict_close", "reg_insert"}
                   /\ prev[c] = p
                   /\ id[p] \in DOMAIN users /\ users[id[p]] = p

\* A user connection has been replaced: the close frame 4100 is on its wire
\* and the handler that replaced it has closed its transport.
C4_Witness ==
    \E p, c \in Conns :
       /\ replacedBy[p] = c
       /\ Close4100(p) # {}
       /\ H(c) \in Range(closes[p])
       /\ id[c] \in DOMAIN users /\ users[id[c]] = c

\* C5: a connection of the registry had its handshake frame decoded and its
\* token verified, and a connection whose handshake was not is in none of
\* the positions that follow the handshake, and is closed when its handler
\* has returned.
C5_RegisteredVerified ==
    \A c \in Conns :
       /\ c \in Registered => hs[c].verified
       /\ ~hs[c].verified =>
             /\ pc[c] \in {"idle", "rejected", "upgrade_failed", "handshake",
                           "hs_close", "closed"}
             /\ c \notin Registered
       /\ pc[c] = "closed" => Closed(c)

\* A request whose handshake failed is closed, unregistered, while another
\* connection is in the registry.
C5_Witness ==
    \E c, d \in Conns :
       /\ pc[c] = "closed" /\ ~hs[c].verified /\ Closed(c)
       /\ c \notin Registered
       /\ d \in Registered

\* The places in wire[t] of the close frames with code 4103.
Close4103(t) ==
    {n \in DOMAIN wire[t] :
        wire[t][n].kind = "close" /\ wire[t][n].code = CodeBadRadioKey}

C7_FromIsHandshakeIdentity ==
    \A t, c \in Conns : \A n \in DOMAIN wire[t] :
       (wire[t][n].kind = "msg" /\ wire[t][n].by = H(c)) =>
          /\ wire[t][n].msg.from = id[c]
          /\ wire[t][n].msg.given = hs[c].claims.given
          /\ wire[t][n].msg.family = hs[c].claims.family

\* C8: a recipient whose forwarding write failed is out of the registry,
\* its transport closed, when the dispatch that wrote to it has returned.
C8_FailedWriteEvicts ==
    \A t, c \in Conns : \A n \in DOMAIN wire[t] :
       (/\ wire[t][n].kind = "msg" /\ wire[t][n].by = H(c)
        /\ ~wire[t][n].ok
        /\ disp[c][wire[t][n].mid].done)
          => (t \notin Registered /\ Closed(t))

\* The tasks that are inside a write to the transport of t.
Writers(t) ==
    {H(d) : d \in {e \in Conns : pc[e] = "evict_write" /\ prev[e] = t}}
    \cup {H(d) : d \in {e \in Conns : pc[e] = "w_write" /\ target[e] = t}}
    \cup {P(d) : d \in {e \in Conns : e = t /\ ping[e] = "p_write"}}
    \cup {H(d) : d \in {e \in Conns : e = t /\ pc[e] = "hs_write4103"}}

\* The tasks that close a transport, or are about to.
Closers ==
    {H(d) : d \in {e \in Conns :
                      pc[e] \in {"evict_close", "hs_close", "cl_close"}}}

\* C9: at most one task is inside a write to the transport of a connection,
\* and a task that writes to a registered connection holds its write lock.
C9_OneWriter ==
    \A t \in Conns :
       /\ Cardinality(Writers(t)) <= 1
       /\ \A w \in Writers(t) : pc[t] # "hs_write4103" => writeMu[t] = w

\* The keepalive task of a connection is inside its write while a
\* dispatcher waits for the write lock of that connection.
C9_Witness ==
    \E t, d \in Conns :
       /\ ping[t] = "p_write" /\ writeMu[t] = P(t)
       /\ pc[d] = "w_lock" /\ target[d] = t

\* C10: no task that is inside a write to a transport, or closes one, holds
\* the registry mutex.
C10_NoIOUnderRegistryLock ==
    \A t \in Conns : \A w \in Writers(t) \cup Closers : mutex # w

\* C11: no connection is both a value of users and a member of radios; the
\* values of users are user connections, each stored under its own identity;
\* the members of radios are radio connections.
C11_RegistryShape ==
    /\ {users[k] : k \in DOMAIN users} \cap radios = {}
    /\ \A k \in DOMAIN users :
          /\ users[k] \in Conns
          /\ role[users[k]] = "user"
          /\ id[users[k]] = k
    /\ \A c \in radios : role[c] = "radio"

\* A user and a radio are registered, and a connection that was registered
\* is in neither structure any more.
C11_Witness ==
    \E u, r, g \in Conns :
       /\ id[u] \in DOMAIN users /\ users[id[u]] = u
       /\ r \in radios
       /\ pc[g] = "done" /\ g \notin Registered

\* C12: the transport of a connection is closed at most once, and by no task
\* but the connection's own handler.
C12_TeardownOnceByOwner ==
    \A c \in Conns :
       /\ Len(closes[c]) <= 1
       /\ \A n \in DOMAIN closes[c] : closes[c][n] = H(c)

\* The state part of C13: a radio's message whose to is empty is recorded as
\* dropped, and a dropped message is a radio's with an empty to, has no
\* target and is on the wire of no connection.
C13_DroppedIsNowhere ==
    \A c \in Conns : \A i \in DOMAIN disp[c] :
       /\ (/\ role[c] = "radio"
           /\ disp[c][i].kind \in {"unicast", "dropped"}
           /\ disp[c][i].msg.to = <<>>)
             => disp[c][i].kind = "dropped"
       /\ disp[c][i].kind = "dropped" =>
             /\ role[c] = "radio"
             /\ disp[c][i].msg.to = <<>>
             /\ disp[c][i].done
             /\ disp[c][i].targets = {}
             /\ \A t \in Conns : Written(t, c, i) = {}

\* The step part of C13: the step that drops a message changes neither the
\* registry, nor any wire, nor any transport, and the handler goes on.
C13_DropChangesNothing ==
    \A c \in Conns :
       (/\ Len(disp'[c]) = Len(disp[c]) + 1
        /\ disp'[c][Len(disp'[c])].kind = "dropped")
          => /\ UNCHANGED <<users, radios, wire, closes, writeMu, mutex>>
             /\ pc'[c] \in {"spawn", "read"}

\* C13: a radio's message with an empty to is written to no connection and
\* leaves the registry as it was, in the handshake and in the read loop.
C13_EmptyToDropped == []C13_DroppedIsNowhere /\ [][C13_DropChangesNothing]_vars

\* A radio's frame with a content and an empty to was dropped while a user
\* was registered: no wire holds a frame.
C13_Witness ==
    \E c, u \in Conns :
       /\ role[c] = "radio" /\ ping[c] # "unstarted" /\ pc[c] = "read"
       /\ Len(disp[c]) = 1 /\ disp[c][1].kind = "dropped"
       /\ disp[c][1].msg.content # <<>>
       /\ id[u] \in DOMAIN users /\ users[id[u]] = u
       /\ \A t \in Conns : wire[t] = <<>>

\* The state part of C14: a request whose role is neither user nor radio is
\* rejected and nothing else; a rejected request has no identity, no
\* handshake, no frame on its wire, no close of a transport, no keepalive
\* task, and is not in the registry.
C14_BadRoleHasNothing ==
    \A c \in Conns :
       /\ (pc[c] # "idle" /\ role[c] \notin {"user", "radio"})
             => pc[c] = "rejected"
       /\ pc[c] = "rejected" =>
             /\ role[c] \notin {"user", "radio"}
             /\ id[c] = <<>>
             /\ hs[c] = NoHandshake
             /\ in[c] = NoFrame
             /\ wire[c] = <<>>
             /\ closes[c] = <<>>
             /\ ping[c] = "unstarted"
             /\ writeMu[c] = Free
             /\ c \notin Registered

\* The step part of C14: the step that rejects a request leaves the registry
\* and every connection as they were.
C14_RejectChangesNothing ==
    \A c \in Conns :
       (pc[c] # "rejected" /\ pc'[c] = "rejected")
          => /\ pc[c] = "idle"
             /\ UNCHANGED <<users, radios, wire, closes, hs, id, in, ping,
                            mutex, writeMu, disp>>

\* C14: a request whose role is neither user nor radio is rejected before
\* the upgrade: no Client is made, no handshake frame is read, the registry
\* is unchanged.
C14_BadRoleRejected == []C14_BadRoleHasNothing /\ [][C14_RejectChangesNothing]_vars

\* A request of role foo was rejected while two connections are registered.
C14_Witness ==
    \E c \in Conns :
       /\ pc[c] = "rejected" /\ role[c] = "foo"
       /\ Cardinality(Registered) = 2

\* C15: the cleanup of a connection leaves every entry of users that maps to
\* another connection, and every other member of radios, as it was.
C15_CleanupRemovesOnlyItself ==
    [][\A c \in Conns :
          (pc[c] = "read" /\ pc'[c] = "cl_close") =>
             /\ \A k \in DOMAIN users :
                   users[k] # c => (k \in DOMAIN users' /\ users'[k] = users[k])
             /\ radios' \ {c} = radios \ {c}]_vars

\* C16: when the close frame 4100 written by the handler of c is on the wire
\* of another connection, or that handler has closed the other transport,
\* the entry of c has been stored in users already.
C16_NewEntryBeforeTeardown ==
    \A p, c \in Conns :
       (/\ c # p
        /\ \/ \E n \in Close4100(p) : wire[p][n].by = H(c)
           \/ H(c) \in Range(closes[p]))
          => pc[c] \notin {"evict_close", "reg_insert"}

\* The state part of C17: a broadcast that has returned wrote one frame to
\* every radio of its snapshot, whatever the writes returned, and none to the
\* connection that sent it.
C17_EveryRadioAttempted ==
    \A c \in Conns : \A i \in DOMAIN disp[c] :
       disp[c][i].kind = "broadcast" =>
          /\ Written(c, c, i) = {}
          /\ c \notin disp[c][i].targets
          /\ disp[c][i].done =>
                \A r \in disp[c][i].targets : Cardinality(Written(r, c, i)) = 1

\* The step part of C17: after a write of a broadcast, failed or not, the
\* sender goes on to the next radio of the slice, or back to its own loop
\* when there is none; its own wire and transport and the registry are as
\* they were.
C17_SenderGoesOn ==
    \A c \in Conns :
       (pc[c] = "w_write" /\ role[c] = "user" /\ pc'[c] # "w_write") =>
          /\ conns[c] # {} =>
                /\ pc'[c] = "w_lock"
                /\ target'[c] \in conns[c]
                /\ conns'[c] = conns[c] \ {target'[c]}
          /\ conns[c] = {} => pc'[c] \in {"spawn", "read"}
          /\ wire'[c] = wire[c]
          /\ UNCHANGED <<users, radios, closes>>

\* C17: a failed write to one radio of a broadcast does not keep the other
\* radios of the snapshot from being written to, and the sender is written
\* nothing and goes on.
C17_FailuresIndependent == []C17_EveryRadioAttempted /\ [][C17_SenderGoesOn]_vars

\* A broadcast to two radios has returned: the write to one failed, the
\* write to the other succeeded, and the sender is back in its read loop
\* with nothing on its wire.
C17_Witness ==
    \E c, r, q \in Conns :
       /\ disp[c] # <<>> /\ disp[c][1].kind = "broadcast" /\ disp[c][1].done
       /\ disp[c][1].targets = {r, q} /\ r # q
       /\ \E n \in Written(r, c, 1) : ~wire[r][n].ok
       /\ \E n \in Written(q, c, 1) : wire[q][n].ok
       /\ pc[c] = "read" /\ wire[c] = <<>> /\ ~Closed(c)

\* The state part of C18: a unicast whose lookup found no target has
\* returned, and no wire ever holds a frame of it.
C18_NoTargetNoFrame ==
    \A c \in Conns : \A i \in DOMAIN disp[c] :
       (/\ disp[c][i].kind = "unicast"
        /\ disp[c][i].snapped
        /\ disp[c][i].targets = {})
          => /\ disp[c][i].done
             /\ \A t \in Conns : Written(t, c, i) = {}

\* The step part of C18: the lookup of a name that has no entry in users
\* ends the dispatch with no target; no wire and no part of the registry
\* changes, and the handler keeps nothing of the frame.
C18_LookupMissDrops ==
    \A c \in Conns :
       (/\ pc[c] = "fwd_user" /\ pc'[c] # "fwd_user"
        /\ in[c].to \notin DOMAIN users)
          => /\ pc'[c] \in {"spawn", "read"}
             /\ disp'[c][mid[c]].targets = {}
             /\ disp'[c][mid[c]].snapped
             /\ in'[c] = NoFrame /\ mid'[c] = 0
             /\ conns'[c] = {} /\ target'[c] = 0
             /\ UNCHANGED <<wire, users, radios, closes>>

\* C18: a radio's unicast to a name with no entry in users is dropped;
\* nothing is written, nothing is kept, and a user that registers under the
\* name later is not written the message.
C18_AbsentTargetDropped == []C18_NoTargetNoFrame /\ [][C18_LookupMissDrops]_vars

\* A radio's unicast found no target, and a user has since registered under
\* the name: its wire is empty.
C18_Witness ==
    \E c, u \in Conns :
       /\ disp[c] # <<>> /\ disp[c][1].kind = "unicast"
       /\ disp[c][1].snapped /\ disp[c][1].targets = {}
       /\ disp[c][1].msg.to \in DOMAIN users
       /\ users[disp[c][1].msg.to] = u
       /\ pc[u] = "read" /\ wire[u] = <<>>

\* A handler that has not started its goroutines holds a handshake frame it
\* did not dispatch.
HeldBack(c) == pc[c] = "spawn" /\ in[c] # NoFrame

\* The state part of C19, with blank for empty: a handshake frame that was
\* not dispatched has a blank content and a blank to, and its handler has
\* dispatched nothing; a handler that has not started its read loop has
\* dispatched at most its handshake frame, whose content or to is not blank,
\* and did so after it had stored its connection in the registry.
C19_HandshakeFrameFirst ==
    \A c \in Conns :
       /\ HeldBack(c) =>
             /\ TrimSpace(in[c].content) = <<>>
             /\ TrimSpace(in[c].to) = <<>>
             /\ disp[c] = <<>>
             /\ \A t \in Conns : \A n \in DOMAIN wire[t] :
                   ~(wire[t][n].kind = "msg" /\ wire[t][n].by = H(c))
       /\ ping[c] = "unstarted" =>
             /\ pc[c] \notin {"read", "cl_close", "done"}
             /\ Len(disp[c]) <= 1
             /\ mid[c] \in {0, 1}
       /\ (ping[c] = "unstarted" /\ disp[c] # <<>>) =>
             /\ \/ TrimSpace(disp[c][1].msg.content) # <<>>
                \/ TrimSpace(disp[c][1].msg.to) # <<>>
             /\ disp[c][1].msg.from = id[c]
             /\ pc[c] \in {"fwd_radios", "fwd_user", "w_lock", "w_write",
                           "spawn"}

\* The step part of C19: the handler that has registered either dispatches
\* its handshake frame, which is not blank, or holds back a blank one and
\* starts its goroutines.
C19_DispatchedOrHeldBack ==
    \A c \in Conns :
       (pc[c] = "hs_dispatch" /\ pc'[c] # "hs_dispatch") =>
          /\ c \in Registered
          /\ \/ /\ Len(disp'[c]) = 1
                /\ \/ TrimSpace(disp'[c][1].msg.content) # <<>>
                   \/ TrimSpace(disp'[c][1].msg.to) # <<>>
             \/ /\ disp'[c] = <<>>
                /\ pc'[c] = "spawn" /\ in'[c] # NoFrame
                /\ TrimSpace(in'[c].content) = <<>>
                /\ TrimSpace(in'[c].to) = <<>>
                /\ UNCHANGED wire

\* C19 with blank for empty: a handshake frame whose content or to is not
\* blank is dispatched as the first message of its connection, after the
\* registration and before the read loop starts; one whose content and to
\* are blank is not dispatched and nothing is written for it.
C19_HandshakeDispatch ==
    []C19_HandshakeFrameFirst /\ [][C19_DispatchedOrHeldBack]_vars

\* C19 as stated: a handshake frame that was not dispatched has an empty
\* content and an empty to.
C19_NonEmptyIsDispatched ==
    \A c \in Conns : HeldBack(c) => (in[c].content = <<>> /\ in[c].to = <<>>)

\* A user's handshake frame with a content has been broadcast to a radio, and
\* the user's handler has not started its read loop yet.
C19_Witness ==
    \E c, r \in Conns :
       /\ role[c] = "user" /\ ping[c] = "unstarted" /\ pc[c] = "spawn"
       /\ Len(disp[c]) = 1 /\ disp[c][1].done
       /\ disp[c][1].msg.content # <<>>
       /\ r \in radios /\ Written(r, c, 1) # {}

\* The state part of C20: no wire holds a frame for a frame that did not
\* decode, and a broadcast or a unicast that follows one on the same
\* connection and has returned wrote one frame to each of its targets.
C20_UndecodedIsNowhere ==
    \A c \in Conns : \A i \in DOMAIN disp[c] :
       disp[c][i].kind = "undecoded" =>
          /\ \A t \in Conns : Written(t, c, i) = {}
          /\ (i + 1 \in DOMAIN disp[c] /\ disp[c][i + 1].done
              /\ disp[c][i + 1].kind \in {"broadcast", "unicast"})
               => \A r \in disp[c][i + 1].targets :
                     Cardinality(Written(r, c, i + 1)) = 1

\* The step part of C20: the step that skips a frame that does not decode
\* leaves the handler in its read loop and the registry, the wires and the
\* transports as they were; and a frame read after one that did not decode
\* goes where the role of its connection sends it.
C20_LoopGoesOn ==
    \A c \in Conns :
       Len(disp'[c]) = Len(disp[c]) + 1 =>
          /\ disp'[c][Len(disp'[c])].kind = "undecoded" =>
                /\ pc[c] = "read" /\ pc'[c] = "read"
                /\ UNCHANGED <<users, radios, wire, closes, ping, in, mid,
                               mutex, writeMu>>
          /\ (/\ disp[c] # <<>>
              /\ disp[c][Len(disp[c])].kind = "undecoded"
              /\ disp'[c][Len(disp'[c])].kind \notin {"undecoded", "unverified"})
               => /\ pc[c] = "read"
                  /\ disp'[c][Len(disp'[c])].kind =
                        IF role[c] = "user" THEN "broadcast"
                        ELSE IF disp'[c][Len(disp'[c])].msg.to = <<>>
                        THEN "dropped" ELSE "unicast"
                  /\ pc'[c] = IF role[c] = "user" THEN "fwd_radios"
                              ELSE IF disp'[c][Len(disp'[c])].msg.to = <<>>
                              THEN "read" ELSE "fwd_user"

\* C20: a frame of the read loop that does not decode is dropped with no
\* delivery, its connection stays as it was with its read loop running, and
\* the next frame that decodes is dispatched.
C20_BadJsonSkipped == []C20_UndecodedIsNowhere /\ [][C20_LoopGoesOn]_vars

\* A registered user sent a frame that did not decode and then a frame that
\* was broadcast to a radio; the user is in its read loop.
C20_Witness ==
    \E c, r \in Conns :
       /\ role[c] = "user" /\ c \in Registered /\ pc[c] = "read"
       /\ Len(disp[c]) = 2
       /\ disp[c][1].kind = "undecoded"
       /\ disp[c][2].kind = "broadcast" /\ disp[c][2].done
       /\ disp[c][2].targets = {r}
       /\ \E n \in Written(r, c, 2) : wire[r][n].ok

\* The tokens the verifier rejects are the missing one, the one that is no
\* JWT, the forged one, the one of another algorithm, the expired one and
\* the one without expiry; the one expired within the leeway is accepted.
C21_Rejected ==
    {t \in Tokens : ~verifyGEWISToken(t)} =
       {TokEmpty, TokGarbage, TokForged, TokAlg, TokExpired, TokNoExp}

\* The state part of C21: no wire holds a frame for a frame whose token was
\* rejected, every message that was dispatched carries the claims of a token
\* the verifier accepts, and a broadcast or a unicast that follows a rejected
\* frame on the same connection and has returned wrote one frame to each of
\* its targets.
C21_UnverifiedIsNowhere ==
    /\ C21_Rejected
    /\ \A c \in Conns : \A i \in DOMAIN disp[c] :
          /\ disp[c][i].kind = "unverified" =>
                /\ \A t \in Conns : Written(t, c, i) = {}
                /\ (i + 1 \in DOMAIN disp[c] /\ disp[c][i + 1].done
                    /\ disp[c][i + 1].kind \in {"broadcast", "unicast"})
                     => \A r \in disp[c][i + 1].targets :
                           Cardinality(Written(r, c, i + 1)) = 1
          /\ disp[c][i].kind \in {"broadcast", "unicast", "dropped"} =>
                \E t \in Tokens :
                   /\ verifyGEWISToken(t)
                   /\ disp[c][i].msg.from = Itoa(GEWISClaims(t).lidnr)
                   /\ disp[c][i].msg.given = GEWISClaims(t).given

\* The step part of C21: the step that skips a frame whose token was rejected
\* leaves the handler in its read loop and the registry, the wires, the
\* transports, the locks and the keepalive tasks as they were, so the
\* connection is found by the lookups and the snapshots as before; and a
\* frame read after a rejected one goes where the role of its connection
\* sends it.
C21_SessionGoesOn ==
    \A c \in Conns :
       Len(disp'[c]) = Len(disp[c]) + 1 =>
          /\ disp'[c][Len(disp'[c])].kind = "unverified" =>
                /\ pc[c] = "read" /\ pc'[c] = "read"
                /\ UNCHANGED <<users, radios, wire, closes, ping, in, mid,
                               mutex, writeMu>>
          /\ (/\ disp[c] # <<>>
              /\ disp[c][Len(disp[c])].kind = "unverified"
              /\ disp'[c][Len(disp'[c])].kind \notin {"undecoded", "unverified"})
               => /\ pc[c] = "read"
                  /\ disp'[c][Len(disp'[c])].kind =
                        IF role[c] = "user" THEN "broadcast"
                        ELSE IF disp'[c][Len(disp'[c])].msg.to = <<>>
                        THEN "dropped" ELSE "unicast"
                  /\ pc'[c] = IF role[c] = "user" THEN "fwd_radios"
                              ELSE IF disp'[c][Len(disp'[c])].msg.to = <<>>
                              THEN "read" ELSE "fwd_user"

C22_RadiosStay ==
    /\ \A c \in Conns : role[c] = "radio" =>
          /\ pc[c] \notin {"evict_wlock", "evict_write", "evict_close"}
          /\ prev[c] = 0
          /\ pc[c] \in {"hs_dispatch", "spawn", "read", "fwd_radios",
                        "fwd_user", "w_lock", "w_write"} => c \in radios
          /\ Range(closes[c]) \subseteq {H(c)}
          /\ Close4100(c) = {}
          /\ replacedBy[c] = 0
          /\ \A t \in Conns \ {c} : H(c) \notin Range(closes[t])
    /\ \A c \in Conns : \A i \in DOMAIN disp[c] :
          (disp[c][i].kind = "broadcast" /\ disp[c][i].done) =>
             \A r \in disp[c][i].targets : Cardinality(Written(r, c, i)) = 1

\* The step part of C22: the registration of a radio adds it to radios and
\* changes nothing else of the registry, no wire and no transport; and the
\* snapshot of a broadcast is every radio of the registry, whatever their
\* identities.
C22_RadioJoins ==
    \A c \in Conns :
       /\ (role[c] = "radio" /\ pc[c] \in {"reg", "reg_insert"}
           /\ pc'[c] # pc[c]) =>
             /\ UNCHANGED <<users, wire, closes, replacedBy>>
             /\ radios' = IF pc[c] = "reg" THEN radios ELSE radios \cup {c}
             /\ pc'[c] = IF pc[c] = "reg" THEN "reg_insert" ELSE "hs_dispatch"
       /\ (pc[c] = "fwd_radios" /\ pc'[c] # "fwd_radios") =>
             /\ disp'[c][mid[c]].targets = radios
             /\ radios' = radios

TornDown(c) ==
    /\ pc[c] = "done"
    /\ c \notin Registered
    /\ H(c) \in Range(closes[c])

\* C23: once the read of a registered connection has failed (the peer closed,
\* the network failed, the read deadline passed), or must fail because the
\* server closed the transport or the deadline has passed, the connection is
\* in the end removed from the registry and its transport closed by its own
\* handler, if every task that can take a step takes one in the end; and a
\* handler that has returned from its read loop has done both.
C23_FailedReadTearsDown ==
    /\ \A c \in Conns :
          /\ (pc[c] = "cl_lock") ~> TornDown(c)
          /\ (Running(c) /\ (Closed(c) \/ deadline[c] = "lapsed"))
                ~> TornDown(c)
    /\ [](\A c \in Conns : pc[c] = "done" => TornDown(c))

\* A session that was superseded has been torn down: its transport was
\* closed by the handler that superseded it, its read failed, and its own
\* cleanup has run.
C23_Witness ==
    \E c \in Conns :
       /\ replacedBy[c] # 0
       /\ closes[c] = <<H(replacedBy[c]), H(c)>>
       /\ TornDown(c)

\* C24: once the keepalive task of c has returned, which it does when a ping
\* was not written, the connection is in the end removed from the registry
\* and its transport closed by its handler.
C24_ProbeFailureClosesSession ==
    \A c \in Conns : (ping[c] = "stopped") ~> TornDown(c)

\* The step part of C25: whatever is written to the transport of a
\* connection whose cleanup has run is not written: the write returns an
\* error.
C25_NoProbeAfterCleanup ==
    \A c \in Conns :
       (pc[c] = "done" /\ Len(wire'[c]) = Len(wire[c]) + 1)
          => ~wire'[c][Len(wire'[c])].ok

\* C25: once the cleanup of a connection has run, its keepalive task returns
\* in the end, if the ticker fires and every task that can take a step takes
\* one in the end, and no ping is written to the connection any more.
C25_KeepaliveEnds ==
    /\ \A c \in Conns : (pc[c] = "done") ~> (ping[c] = "stopped")
    /\ [][C25_NoProbeAfterCleanup]_vars

\* The keepalive task of a connection wrote a ping, the cleanup of the
\* connection ran, the ticker fired again, the ping was not written though no
\* write failed on an open transport, and the task has returned.
C25_Witness ==
    \E c \in Conns :
       /\ pc[c] = "done" /\ ping[c] = "stopped" /\ nfail = 0
       /\ Len(wire[c]) = 2
       /\ wire[c][1].kind = "ping" /\ wire[c][1].ok
       /\ wire[c][2].kind = "ping" /\ ~wire[c][2].ok
       /\ closes[c] = <<H(c)>>

\* C26: the frames one handler wrote to one transport are in the order of its
\* dispatches, the message of the handshake frame being the first of them,
\* and each is the message of its dispatch; nothing is said of the frames of
\* two handlers.
C26_PerSenderOrder ==
    \A t, c \in Conns : \A n1, n2 \in DOMAIN wire[t] :
       (/\ wire[t][n1].kind = "msg" /\ wire[t][n1].by = H(c)
        /\ wire[t][n2].kind = "msg" /\ wire[t][n2].by = H(c)
        /\ n1 < n2)
          => /\ wire[t][n1].mid < wire[t][n2].mid
             /\ wire[t][n2].mid \in DOMAIN disp[c]
             /\ wire[t][n1].msg = disp[c][wire[t][n1].mid].msg
             /\ wire[t][n2].msg = disp[c][wire[t][n2].mid].msg

\* A user's handshake frame, which names a target and has no content, and
\* then a frame of its read loop were both broadcast and written to the same
\* radio, in this order.
C26_Witness ==
    \E c, t \in Conns :
       /\ role[c] = "user" /\ Len(disp[c]) = 2
       /\ disp[c][1].msg.content = <<>> /\ disp[c][1].msg.to # <<>>
       /\ disp[c][2].msg.content # <<>>
       /\ \E n1, n2 \in DOMAIN wire[t] :
             /\ n1 < n2
             /\ wire[t][n1].by = H(c) /\ wire[t][n1].mid = 1 /\ wire[t][n1].ok
             /\ wire[t][n2].by = H(c) /\ wire[t][n2].mid = 2 /\ wire[t][n2].ok
             /\ wire[t][n1].msg = disp[c][1].msg
             /\ wire[t][n2].msg = disp[c][2].msg

\* The handler and the keepalive tasks.
Tasks == {H(c) : c \in Conns} \cup {P(c) : c \in Conns}

\* The task that holds the lock task t waits for, or Free: a handler asks for
\* the registry mutex to register, to take a snapshot, to look a user up and
\* to clean up, for the write lock of the previous session with the registry
\* mutex held, and for the write lock of a recipient; a keepalive task asks
\* for the write lock of its own connection.
WaitsFor(t) ==
    IF t \in Conns
    THEN IF pc[t] \in {"reg", "fwd_radios", "fwd_user", "read", "cl_lock"}
         THEN mutex
         ELSE IF pc[t] = "evict_wlock" THEN writeMu[prev[t]]
         ELSE IF pc[t] = "w_lock" THEN writeMu[target[t]]
         ELSE Free
    ELSE IF ping[t - NConn] = "tick" THEN writeMu[t - NConn] ELSE Free

\* A set of tasks each of which waits for a lock that a task of the set
\* holds.
Deadlocked ==
    \E D \in SUBSET Tasks :
       /\ D # {}
       /\ \A t \in D : WaitsFor(t) \in D

\* C27: no set of tasks waits in a circle; a task that asks for the registry
\* mutex holds no write lock; a task that holds a write lock is writing, and
\* holds one write lock only; a task that holds the registry mutex and a
\* write lock is the handler that writes the close frame to the session it
\* supersedes, which took the registry mutex first; a keepalive task never
\* holds the registry mutex.
C27_LockOrder ==
    /\ ~Deadlocked
    /\ mutex \in {Free} \cup {H(c) : c \in Conns}
    /\ \A c \in Conns :
          /\ pc[c] \in {"reg", "fwd_radios", "fwd_user", "read", "cl_lock"}
                => \A x \in Conns : writeMu[x] # H(c)
          /\ \A x \in Conns : writeMu[x] = H(c) =>
                /\ pc[c] \in {"evict_write", "w_write"}
                /\ x = IF pc[c] = "evict_write" THEN prev[c] ELSE target[c]
                /\ mutex = H(c) <=> pc[c] = "evict_write"
          /\ \A x \in Conns : writeMu[x] = P(c) =>
                (x = c /\ ping[c] = "p_write")

\* A handler holds the registry mutex and waits for the write lock of the
\* session it supersedes, which the keepalive task of that session holds.
C27_Witness ==
    \E c \in Conns :
       /\ pc[c] = "evict_wlock" /\ mutex = H(c)
       /\ writeMu[prev[c]] = P(prev[c])
       /\ WaitsFor(H(c)) = P(prev[c])

\* C28: every message of a user's connection is a broadcast, also one that
\* names a target, and is written to radios only; every message of a radio's
\* connection is a unicast or is dropped, and is written to users only; so a
\* frame is never written to a connection of the role of the connection it
\* came from.
C28_RoutedByRole ==
    /\ \A c \in Conns : \A i \in DOMAIN disp[c] :
          /\ disp[c][i].kind \in {"broadcast", "unicast", "dropped"} =>
                disp[c][i].kind = IF role[c] = "user" THEN "broadcast"
                                  ELSE IF disp[c][i].msg.to = <<>>
                                  THEN "dropped" ELSE "unicast"
          /\ \A r \in disp[c][i].targets :
                role[r] = IF role[c] = "user" THEN "radio" ELSE "user"
    /\ \A t \in Conns : \A n \in DOMAIN wire[t] :
          wire[t][n].kind = "msg" =>
             /\ wire[t][n].by \in Conns
             /\ role[wire[t][n].by] \in {"user", "radio"}
             /\ role[t] = IF role[wire[t][n].by] = "user" THEN "radio"
                          ELSE "user"
             /\ t \in disp[wire[t][n].by][wire[t][n].mid].targets

\* A listener sent a message that names another listener, who is registered:
\* it was broadcast and written to the radio, and nothing was written to the
\* listener it names.
C28_Witness ==
    \E c, u, r \in Conns :
       /\ role[c] = "user" /\ role[u] = "user" /\ role[r] = "radio"
       /\ c # u /\ id[u] # id[c]
       /\ Len(disp[c]) = 1 /\ disp[c][1].kind = "broadcast"
       /\ disp[c][1].done /\ disp[c][1].msg.to = id[u]
       /\ id[u] \in DOMAIN users /\ users[id[u]] = u /\ pc[u] = "read"
       /\ wire[u] = <<>>
       /\ disp[c][1].targets = {r}
       /\ \E n \in Written(r, c, 1) : wire[r][n].ok

\* C29: a connection whose cleanup has deleted its entry, and one that was
\* closed before it registered, is no value of users and no member of radios,
\* in that state and in every later one; a connection is in the registry
\* only from its registration on.
C29_NoPhantomEntries ==
    \A c \in Conns :
       /\ pc[c] \in {"cl_close", "done"} => c \notin Registered
       /\ pc[c] \in {"idle", "rejected", "upgrade_failed", "handshake",
                     "hs_write4103", "hs_close", "closed", "reg",
                     "evict_wlock", "evict_write", "evict_close",
                     "reg_insert"} => c \notin Registered
       /\ c \in Registered => (\/ c \in radios /\ role[c] = "radio"
                               \/ /\ role[c] = "user"
                                  /\ id[c] \in DOMAIN users
                                  /\ users[id[c]] = c)

\* The cleanup of a listener's connection has run, and a later connection of
\* the same listener is registered under the identity: the first connection
\* is nowhere in the registry.
C29_Witness ==
    \E c, d \in Conns :
       /\ c < d /\ role[c] = "user" /\ role[d] = "user" /\ id[c] = id[d]
       /\ pc[c] = "done" /\ replacedBy[c] = 0
       /\ id[d] \in DOMAIN users /\ users[id[d]] = d
       /\ c \notin Registered

====
